---- MODULE Spec2Model ----
(***************************************************************************)
(* Model of asana2sql: Project (src/asana2sql/Project.py) driven by main   *)
(* (src/asana2sql.py).  One behaviour is one run of the tool.  SQL text is *)
(* modelled as a sequence of tokens so that the string concatenation that  *)
(* builds the ON CONFLICT update set is modelled by what it produces.      *)
(***************************************************************************)
EXTENDS Naturals, Sequences, FiniteSets

\* ------------------------------------------------------------------ bounds
MaxTop == 2        \* most top-level tasks in a project
MaxSub == 1        \* most direct sub-tasks of one task

Gids == {"1", "2", "3"}

\* ------------------------------------------------------------ python values
\* None, a bool, or a str (a sequence of character tokens)
NoneV == [t |-> "none", b |-> FALSE, s |-> <<>>]
BoolV(x) == [t |-> "bool", b |-> x, s |-> <<>>]
StrV(x) == [t |-> "str", b |-> FALSE, s |-> x]

\* Python truthiness, as tested by `if field.get_data_from_task(task):`
Truthy(v) == \/ v.t = "bool" /\ v.b
             \/ v.t = "str" /\ Len(v.s) > 0

Range(f) == {f[i] : i \in DOMAIN f}

\* --------------------------------------------------------------- the fields
DefaultFields == <<"gid", "name", "completed">>
DefaultIndirectFields == <<"followers">>

\* field.get_data_from_task(task) of a direct field: the task's attribute
GetDataFromTask(field, task) ==
  IF field \in DOMAIN task THEN task[field] ELSE NoneV

\* Project._required_fields
RequiredFields(direct, indirect) == Range(direct) \cup Range(indirect)

\* Project._id_field
IdField(direct) == direct[1]

\* column named in INSERT_OR_REPLACE_TEMPLATE's ON CONFLICT clause
ConflictColumn == "gid"

\* attribute read by Project.asana_task_ids
AsanaIdAttribute == "gid"

\* ------------------------------------------------- building the update set
\* The loop of insert_or_replace over the direct fields.  ok = FALSE is the
\* TypeError of concatenating a non-str value to a str.
RECURSIVE SetCommandFrom(_, _, _, _)
SetCommandFrom(direct, task, i, acc) ==
  IF i > Len(direct) THEN [ok |-> TRUE, text |-> acc]
  ELSE LET v == GetDataFromTask(direct[i], task)
           sep == IF acc # <<>> /\ Truthy(v) THEN acc \o <<",">> ELSE acc
       IN IF ~Truthy(v) THEN SetCommandFrom(direct, task, i + 1, sep)
          ELSE IF v.t # "str" THEN [ok |-> FALSE, text |-> sep]
          ELSE SetCommandFrom(direct, task, i + 1,
                              sep \o <<direct[i], "=", "'">> \o v.s \o <<"'">>)

SetCommand(direct, task) == SetCommandFrom(direct, task, 1, <<>>)

\* params = [field.get_data_from_task(task) for field in self._direct_fields]
Params(direct, task) ==
  [c \in Range(direct) |-> GetDataFromTask(c, task)]

\* ------------------------------------------- the database reading the text
Punctuation == {"'", ",", "="}

\* a string literal starting after its opening quote at text[pos]; '' inside
\* a literal is one quote character
RECURSIVE ParseLiteral(_, _, _)
ParseLiteral(text, pos, acc) ==
  IF pos > Len(text) THEN [ok |-> FALSE, val |-> acc, next |-> pos]
  ELSE IF text[pos] # "'" THEN ParseLiteral(text, pos + 1, Append(acc, text[pos]))
  ELSE IF pos + 1 <= Len(text) /\ text[pos + 1] = "'"
       THEN ParseLiteral(text, pos + 2, Append(acc, "'"))
  ELSE [ok |-> TRUE, val |-> acc, next |-> pos + 1]

\* column = 'literal' {, column = 'literal'}
RECURSIVE ParseAssignments(_, _, _)
ParseAssignments(text, pos, acc) ==
  IF pos + 2 > Len(text) THEN [ok |-> FALSE, assigns |-> acc]
  ELSE IF \/ text[pos] \in Punctuation
          \/ text[pos + 1] # "="
          \/ text[pos + 2] # "'"
       THEN [ok |-> FALSE, assigns |-> acc]
  ELSE LET lit == ParseLiteral(text, pos + 3, <<>>)
           now == Append(acc, [col |-> text[pos], val |-> lit.val])
       IN IF ~lit.ok THEN [ok |-> FALSE, assigns |-> acc]
          ELSE IF lit.next > Len(text) THEN [ok |-> TRUE, assigns |-> now]
          ELSE IF text[lit.next] # "," THEN [ok |-> FALSE, assigns |-> acc]
          ELSE ParseAssignments(text, lit.next + 1, now)

ParseSet(text) == ParseAssignments(text, 1, <<>>)

\* columns the statement's DO UPDATE SET clause assigns
UpdateSetColumns(text) ==
  LET p == ParseSet(text) IN
  IF p.ok THEN {p.assigns[i].col : i \in DOMAIN p.assigns} ELSE {}

\* the statement is accepted: the SET clause parses, names only columns of
\* the table, names none twice, and the conflict target is a column
StatementValid(stmt) ==
  LET p == ParseSet(stmt.set) IN
  /\ p.ok
  /\ \A i \in DOMAIN p.assigns : p.assigns[i].col \in Range(stmt.cols)
  /\ \A i, j \in DOMAIN p.assigns :
        p.assigns[i].col = p.assigns[j].col => i = j
  /\ stmt.conflict \in Range(stmt.cols)

\* value assigned to column c by the SET clause
AssignedValue(text, c) ==
  LET p == ParseSet(text)
      i == CHOOSE k \in DOMAIN p.assigns : p.assigns[k].col = c
  IN StrV(p.assigns[i].val)

\* INSERT ... VALUES (params) ON CONFLICT (conflict) DO UPDATE SET set
UpsertEffect(tbl, stmt) ==
  LET key == stmt.params[stmt.conflict]
      hit == {r \in tbl : key.t # "none" /\ r[stmt.conflict] = key}
      upd(r) == [c \in DOMAIN r |->
                   IF c \in UpdateSetColumns(stmt.set)
                   THEN AssignedValue(stmt.set, c) ELSE r[c]]
  IN IF hit = {} THEN tbl \cup {stmt.params}
     ELSE (tbl \ hit) \cup {upd(r) : r \in hit}

\* DELETE FROM t WHERE col = id
DeleteEffect(tbl, stmt) == {r \in tbl : r[stmt.col] # stmt.id}

\* SELECT col FROM t, as the set of row[0]
SelectColumn(tbl, col) == {r[col] : r \in tbl}

\* ------------------------------------------------------------------- state
VARIABLES
  args,                \* parsed command line: dry, odbc_string, command, table_name
  direct_fields,       \* Project._direct_fields
  indirect_fields,     \* Project._indirect_fields
  remote,              \* the project on the remote service: top-level list, sub-tasks
  task_data,           \* attribute values the remote service holds for its tasks
  remote_change,       \* when the remote project was edited during this run
  table,               \* rows of the task table
  table0,              \* rows of the task table when the run started
  db_log,              \* statements issued to the database, in call order
  project_data_cache,  \* Project._project_data_cache
  task_cache,          \* Project._task_cache
  project_tasks,       \* _tasks: the second task list, being iterated
  sub_i,               \* _tasks: position in project_tasks
  task_requests,       \* task-list and sub-task requests sent so far
  req_fields,          \* field selections those requests carried
  tasks_returns,       \* times _tasks() has returned
  db_task_ids,         \* synchronize: local db_task_ids
  asana_task_ids,      \* synchronize: local asana_task_ids
  ids_to_remove,       \* synchronize: local ids_to_remove
  to_delete,           \* synchronize: ids the delete loop has not reached yet
  task_i,              \* export / synchronize: position in the task list
  indirect_calls,      \* extractions of indirect fields performed
  ret,                 \* where the current _tasks() call returns to
  pc

vars == <<args, direct_fields, indirect_fields, remote, task_data,
          remote_change, table, table0, db_log, project_data_cache,
          task_cache, project_tasks, sub_i, task_requests, req_fields,
          tasks_returns, db_task_ids, asana_task_ids, ids_to_remove,
          to_delete, task_i, indirect_calls, ret, pc>>

\* ------------------------------------------------------------- input sets
Commands == {"create", "export", "synchronize", "none"}

\* gids are listed in ascending order
Before(a, b) ==
  \/ a = "1" /\ b \in {"2", "3", "4"}
  \/ a = "2" /\ b \in {"3", "4"}
  \/ a = "3" /\ b = "4"

IsAscending(q) == \A a, b \in DOMAIN q : a < b => Before(q[a], q[b])

\* ascending sequences of elements of S, no longer than n
RECURSIVE AscendingSeqs(_, _)
AscendingSeqs(S, n) ==
  IF n = 0 THEN {<<>>}
  ELSE LET shorter == AscendingSeqs(S, n - 1) IN
       shorter \cup {q \in {Append(q2, x) : q2 \in shorter, x \in S} : IsAscending(q)}

NoSubs == [g \in Gids |-> <<>>]

\* a project: top-level tasks, and direct sub-tasks of the top-level tasks
SubsFor(tp) ==
  {f \in [Gids -> AscendingSeqs(Gids, MaxSub)] :
     \A g \in Gids : /\ g \notin Range(f[g])
                     /\ (g \notin Range(tp) => f[g] = <<>>)}

Remotes ==
  UNION {{[top |-> tp, subs |-> sb] : sb \in SubsFor(tp)} :
           tp \in AscendingSeqs(Gids, MaxTop)}

\* what a concurrent edit of the project can leave behind
ChangedRemotes == {[top |-> <<"3">>, subs |-> NoSubs]}

NameValues ==
  { NoneV, StrV(<<>>), StrV(<<"a">>), StrV(<<"a", "'", "b">>),
    StrV(<<"a", "'", ",", "completed", "=", "'", "x">>) }

CompletedValues == {NoneV, BoolV(FALSE), BoolV(TRUE)}

\* attribute values of the project's tasks: every name with an absent
\* completion flag, every completion flag with a plain name
TaskData ==
  {d \in [name : NameValues, completed : CompletedValues] :
     d.completed = NoneV \/ d.name = StrV(<<"a">>)}

\* the record the remote service returns for task g
TaskOf(g, data) ==
  [gid |-> StrV(<<g>>), name |-> data.name, completed |-> data.completed]

TasksOf(gs, data) == [k \in DOMAIN gs |-> TaskOf(gs[k], data)]

\* tasks that earlier runs exported
ExportedGids == {"1", "2"}

\* a row exported by an earlier run
OldRow(g) ==
  [gid |-> StrV(<<g>>), name |-> StrV(<<"o">>), completed |-> BoolV(TRUE)]

FieldLists == {DefaultFields, <<"name", "gid", "completed">>}

NoCache == [set |-> FALSE, list |-> <<>>]

InitWith(fieldLists) ==
  /\ args \in [dry : BOOLEAN, odbc_string : BOOLEAN,
               command : Commands, table_name : BOOLEAN]
  /\ direct_fields \in fieldLists
  /\ indirect_fields = DefaultIndirectFields
  /\ remote \in Remotes
  /\ task_data \in TaskData
  /\ remote_change = "none"
  /\ table \in {{OldRow(g) : g \in S} : S \in SUBSET ExportedGids}
  /\ table0 = table
  /\ db_log = <<>>
  /\ project_data_cache = "None"
  /\ task_cache = NoCache
  /\ project_tasks = <<>>
  /\ sub_i = 1
  /\ task_requests = 0
  /\ req_fields = {}
  /\ tasks_returns = 0
  /\ db_task_ids = {}
  /\ asana_task_ids = {}
  /\ ids_to_remove = {}
  /\ to_delete = {}
  /\ task_i = 1
  /\ indirect_calls = 0
  /\ ret = "none"
  /\ pc = "start"

Init == InitWith({DefaultFields})

InitFields == InitWith(FieldLists)

\* ------------------------------------------------------------- control flow
\* synchronize with its two loops exchanged
NextPhaseDeleteFirst(command, p) ==
  CASE p = "start" ->
         (CASE command = "create" -> "create_table"
            [] command = "export" -> "upsert"
            [] command = "synchronize" -> "db_task_ids"
            [] OTHER -> "commit")
    [] p = "create_table" -> "create_tables"
    [] p = "db_task_ids" -> "asana_task_ids"
    [] p = "asana_task_ids" -> IF command = "synchronize" THEN "delete" ELSE "upsert"
    [] p = "delete" -> "upsert"
    [] OTHER -> "commit"

\* main dispatching export to synchronize
NextPhaseExportSynchronizes(command, p) ==
  CASE p = "start" ->
         (CASE command = "create" -> "create_table"
            [] command \in {"export", "synchronize"} -> "db_task_ids"
            [] OTHER -> "commit")
    [] p = "create_table" -> "create_tables"
    [] p = "db_task_ids" -> "asana_task_ids"
    [] p = "asana_task_ids" -> "upsert"
    [] p = "upsert" -> IF command \in {"export", "synchronize"} THEN "delete" ELSE "commit"
    [] OTHER -> "commit"

\* The statement order of main, export and synchronize: the phase that
\* follows phase p under the selected command.
NextPhase(command, p) ==
  CASE p = "start" ->
         (CASE command = "create" -> "create_table"
            [] command = "export" -> "upsert"
            [] command = "synchronize" -> "db_task_ids"
            [] OTHER -> "commit")
    [] p = "create_table" -> "create_tables"
    [] p = "db_task_ids" -> "asana_task_ids"
    [] p = "asana_task_ids" -> "upsert"
    [] p = "upsert" -> IF command = "synchronize" THEN "delete" ELSE "commit"
    [] OTHER -> "commit"

\* phases that start by calling _tasks()
TasksPhases == {"asana_task_ids", "upsert"}

PhasePc(p) == IF p \in TasksPhases THEN "tasks_call" ELSE p

Goto(p) == pc' = PhasePc(p) /\ ret' = p

\* the cache is never trusted
CacheMissAlways(cache) == TRUE

\* `if self._task_cache is None`
CacheMiss(cache) == ~cache.set

\* the difference taken the wrong way round
IdsToRemoveReversed(inDb, inAsana) == inAsana \ inDb

\* db_task_ids.difference(asana_task_ids)
IdsToRemove(inDb, inAsana) == inDb \ inAsana

\* the sub-tasks are fetched but not kept
AppendSubTasksDropped(list, subTasks) == list

\* self._task_cache.append(sub_task) for every sub-task of one task
AppendSubTasks(list, subTasks) == list \o subTasks

cfgVars == <<args, direct_fields, indirect_fields, task_data, table0>>
remoteVars == <<remote, remote_change>>
fetchVars == <<task_cache, project_tasks, sub_i, task_requests, req_fields,
               tasks_returns>>
syncVars == <<db_task_ids, asana_task_ids, ids_to_remove, to_delete>>

\* ------------------------------------------------------------ collaborators
\* DatabaseWrapper.write: the statement is handed over; in dry mode it is not
\* executed; otherwise it runs on the connection, which may reject it.
Write(stmt, newTable, valid, okPc) ==
  /\ db_log' = Append(db_log, stmt)
  /\ \/ /\ args.dry
        /\ table' = table /\ pc' = okPc
     \/ /\ ~args.dry /\ args.odbc_string /\ valid
        /\ table' = newTable /\ pc' = okPc
     \/ /\ ~args.dry
        /\ table' = table /\ pc' = "failed"

\* table_name() has to ask the remote service for the project's name
NeedsProjectData == ~args.table_name /\ project_data_cache = "None"

\* _project_data, reached through table_name(): the request succeeds
ProjectData ==
  project_data_cache' = IF NeedsProjectData THEN "data" ELSE project_data_cache

\* _project_data: find_by_id raises, the run aborts
ProjectDataFails ==
  /\ NeedsProjectData
  /\ pc' = "failed"
  /\ UNCHANGED <<cfgVars, remoteVars, fetchVars, syncVars, table, db_log,
                 project_data_cache, task_i, indirect_calls, ret>>

\* one task-list or sub-task request with the fields parameter
Request ==
  /\ task_requests' = task_requests + 1
  /\ req_fields' = req_fields \cup {RequiredFields(direct_fields, indirect_fields)}

\* ------------------------------------------------------------------ actions
\* main, lines 155-162: dispatch on the command
Main ==
  /\ pc = "start"
  /\ Goto(NextPhase(args.command, "start"))
  /\ UNCHANGED <<cfgVars, remoteVars, fetchVars, syncVars, table, db_log,
                 project_data_cache, task_i, indirect_calls>>

CreateTable ==
  /\ pc = "create_table"
  /\ \/ ProjectDataFails
     \/ /\ ProjectData
        /\ Write([op |-> "create", cols |-> direct_fields], table, TRUE,
                 NextPhase(args.command, "create_table"))
        /\ UNCHANGED <<cfgVars, remoteVars, fetchVars, syncVars, task_i,
                       indirect_calls, ret>>

\* workspace.create_tables()
WorkspaceCreateTables ==
  /\ pc = "create_tables"
  /\ Write([op |-> "create_aux"], table, TRUE, "commit")
  /\ UNCHANGED <<cfgVars, remoteVars, fetchVars, syncVars, project_data_cache,
                 task_i, indirect_calls, ret>>

\* Project.db_task_ids: the read runs on the connection also in dry mode
DbTaskIds ==
  /\ pc = "db_task_ids"
  /\ \/ ProjectDataFails
     \/ /\ ProjectData
        /\ db_log' = Append(db_log, [op |-> "select", col |-> IdField(direct_fields)])
        /\ \/ /\ args.odbc_string
              /\ db_task_ids' = SelectColumn(table, IdField(direct_fields))
              /\ Goto(NextPhase(args.command, "db_task_ids"))
           \/ /\ pc' = "failed"
              /\ UNCHANGED <<db_task_ids, ret>>
        /\ UNCHANGED <<cfgVars, remoteVars, fetchVars, table, asana_task_ids,
                       ids_to_remove, to_delete, task_i, indirect_calls>>

\* _tasks(), line 63 and, on a hit, line 72
TasksCall ==
  /\ pc = "tasks_call"
  /\ IF CacheMiss(task_cache)
     THEN /\ pc' = "fetch1"
          /\ UNCHANGED <<tasks_returns, task_i>>
     ELSE /\ pc' = ret
          /\ tasks_returns' = tasks_returns + 1
          /\ task_i' = 1
  /\ UNCHANGED <<cfgVars, remoteVars, syncVars, table, db_log,
                 project_data_cache, task_cache, project_tasks, sub_i,
                 task_requests, req_fields, indirect_calls, ret>>

\* _tasks(), line 64: the first task list seeds the cache
FetchTaskList ==
  /\ pc = "fetch1"
  /\ Request
  /\ \/ /\ task_cache' = [set |-> TRUE, list |-> TasksOf(remote.top, task_data)]
        /\ pc' = "fetch2"
     \/ /\ pc' = "failed"
        /\ UNCHANGED task_cache
  /\ UNCHANGED <<cfgVars, remoteVars, syncVars, table, db_log,
                 project_data_cache, project_tasks, sub_i, tasks_returns,
                 task_i, indirect_calls, ret>>

\* _tasks(), line 65: the task list is requested a second time
FetchProjectTasks ==
  /\ pc = "fetch2"
  /\ Request
  /\ \/ /\ project_tasks' = TasksOf(remote.top, task_data)
        /\ sub_i' = 1
        /\ pc' = "subtasks"
     \/ /\ pc' = "failed"
        /\ UNCHANGED <<project_tasks, sub_i>>
  /\ UNCHANGED <<cfgVars, remoteVars, syncVars, table, db_log,
                 project_data_cache, task_cache, tasks_returns, task_i,
                 indirect_calls, ret>>

\* _tasks(), lines 66-71: the sub-tasks of one task of the second list
FetchSubTasks ==
  /\ pc = "subtasks"
  /\ sub_i <= Len(project_tasks)
  /\ Request
  /\ LET task_id == project_tasks[sub_i].gid.s[1] IN
     \/ /\ task_cache' =
             [task_cache EXCEPT !.list =
                AppendSubTasks(@, TasksOf(remote.subs[task_id], task_data))]
        /\ sub_i' = sub_i + 1
        /\ pc' = "subtasks"
     \/ /\ pc' = "failed"
        /\ UNCHANGED <<task_cache, sub_i>>
  /\ UNCHANGED <<cfgVars, remoteVars, syncVars, table, db_log,
                 project_data_cache, project_tasks, tasks_returns, task_i,
                 indirect_calls, ret>>

\* _tasks(), line 72 after a fetch
TasksReturn ==
  /\ pc = "subtasks"
  /\ sub_i > Len(project_tasks)
  /\ pc' = ret
  /\ tasks_returns' = tasks_returns + 1
  /\ task_i' = 1
  /\ UNCHANGED <<cfgVars, remoteVars, syncVars, table, db_log,
                 project_data_cache, task_cache, project_tasks, sub_i,
                 task_requests, req_fields, indirect_calls, ret>>

\* synchronize, lines 135-137, after asana_task_ids() got the task list
AsanaTaskIds ==
  /\ pc = "asana_task_ids"
  /\ asana_task_ids' = {GetDataFromTask(AsanaIdAttribute, task_cache.list[k]) :
                          k \in DOMAIN task_cache.list}
  /\ ids_to_remove' = IdsToRemove(db_task_ids, asana_task_ids')
  /\ to_delete' = ids_to_remove'
  /\ Goto(NextPhase(args.command, "asana_task_ids"))
  /\ UNCHANGED <<cfgVars, remoteVars, fetchVars, table, db_log,
                 project_data_cache, db_task_ids, task_i, indirect_calls>>

\* the upsert statement insert_or_replace issues for a task
UpsertStatement(direct, task) ==
  [op |-> "upsert", cols |-> direct, params |-> Params(direct, task),
   conflict |-> ConflictColumn, set |-> SetCommand(direct, task).text]

\* insert_or_replace(task) for the next task of export's or synchronize's loop
InsertOrReplace ==
  /\ pc = "upsert"
  /\ task_i <= Len(task_cache.list)
  /\ LET task == task_cache.list[task_i]
         stmt == UpsertStatement(direct_fields, task)
     IN \/ /\ ~SetCommand(direct_fields, task).ok
           /\ pc' = "failed"
           /\ UNCHANGED <<cfgVars, remoteVars, fetchVars, syncVars, table,
                          db_log, project_data_cache, task_i, indirect_calls,
                          ret>>
        \/ /\ SetCommand(direct_fields, task).ok
           /\ ProjectDataFails
        \/ /\ SetCommand(direct_fields, task).ok
           /\ ProjectData
           /\ Write(stmt, UpsertEffect(table, stmt), StatementValid(stmt), "upsert")
           /\ task_i' = task_i + 1
           /\ indirect_calls' = IF pc' = "failed" THEN indirect_calls
                                ELSE indirect_calls + Len(indirect_fields)
           /\ UNCHANGED <<cfgVars, remoteVars, fetchVars, syncVars, ret>>

\* the loop over the tasks is exhausted
UpsertsDone ==
  /\ pc = "upsert"
  /\ task_i > Len(task_cache.list)
  /\ Goto(NextPhase(args.command, "upsert"))
  /\ UNCHANGED <<cfgVars, remoteVars, fetchVars, syncVars, table, db_log,
                 project_data_cache, task_i, indirect_calls>>

\* delete(id_to_remove) for an id of synchronize's second loop
Delete ==
  /\ pc = "delete"
  /\ \E id \in to_delete :
       \/ ProjectDataFails
       \/ /\ ProjectData
          /\ LET stmt == [op |-> "delete", col |-> IdField(direct_fields), id |-> id]
             IN Write(stmt, DeleteEffect(table, stmt), TRUE, "delete")
          /\ to_delete' = to_delete \ {id}
          /\ UNCHANGED <<cfgVars, remoteVars, fetchVars, db_task_ids,
                         asana_task_ids, ids_to_remove, task_i,
                         indirect_calls, ret>>

DeletesDone ==
  /\ pc = "delete"
  /\ to_delete = {}
  /\ Goto(NextPhase(args.command, "delete"))
  /\ UNCHANGED <<cfgVars, remoteVars, fetchVars, syncVars, table, db_log,
                 project_data_cache, task_i, indirect_calls>>

\* main, lines 164-165
Commit ==
  /\ pc = "commit"
  /\ \/ /\ args.dry
        /\ pc' = "done"
        /\ UNCHANGED db_log
     \/ /\ ~args.dry /\ args.odbc_string
        /\ db_log' = Append(db_log, [op |-> "commit"])
        /\ pc' \in {"done", "commit_failed"}
     \/ /\ ~args.dry /\ ~args.odbc_string
        /\ pc' = "commit_failed"
        /\ UNCHANGED db_log
  /\ UNCHANGED <<cfgVars, remoteVars, fetchVars, syncVars, table,
                 project_data_cache, task_i, indirect_calls, ret>>

\* Somebody edits the project on the remote service while the tool runs.  An
\* edit is taken only while a request for tasks can still follow it; at any
\* other time the program cannot observe it.
RemoteChange ==
  /\ pc \in {"tasks_call", "fetch1", "fetch2", "subtasks", "asana_task_ids"}
  /\ remote_change = "none"
  /\ remote' \in ChangedRemotes \ {remote}
  /\ remote_change' = IF tasks_returns = 0 THEN "during_fetch" ELSE "after_return"
  /\ UNCHANGED <<cfgVars, fetchVars, syncVars, table, db_log,
                 project_data_cache, task_i, indirect_calls, ret, pc>>

Next ==
  \/ Main
  \/ CreateTable
  \/ WorkspaceCreateTables
  \/ DbTaskIds
  \/ TasksCall
  \/ FetchTaskList
  \/ FetchProjectTasks
  \/ FetchSubTasks
  \/ TasksReturn
  \/ AsanaTaskIds
  \/ InsertOrReplace
  \/ UpsertsDone
  \/ Delete
  \/ DeletesDone
  \/ Commit
  \/ RemoteChange

Spec == Init /\ [][Next]_vars

SpecFields == InitFields /\ [][Next]_vars

TypeOK == pc \in {"start", "create_table", "create_tables", "db_task_ids",
                  "tasks_call", "fetch1", "fetch2", "subtasks",
                  "asana_task_ids", "upsert", "delete", "commit", "done",
                  "failed", "commit_failed"}

\* ------------------------------------------------------------- properties
Upserts == SelectSeq(db_log, LAMBDA st : st.op = "upsert")
Deletes == SelectSeq(db_log, LAMBDA st : st.op = "delete")
Commits == SelectSeq(db_log, LAMBDA st : st.op = "commit")

\* values of the identifier column
IdsIn(tbl) == {r["gid"] : r \in tbl}

GidsOf(list) == [k \in DOMAIN list |-> list[k]["gid"]]

\* identifiers of the fetched task list
FetchedIds == Range(GidsOf(task_cache.list))

\* the project as one flat list: the top-level tasks, then the direct
\* sub-tasks of each of them
RECURSIVE FlattenSubs(_, _, _)
FlattenSubs(r, data, k) ==
  IF k > Len(r.top) THEN <<>>
  ELSE TasksOf(r.subs[r.top[k]], data) \o FlattenSubs(r, data, k + 1)

Flatten(r, data) == TasksOf(r.top, data) \o FlattenSubs(r, data, 1)

\* synchronize() or export() has returned to main
CommandReturned == pc \in {"commit", "done", "commit_failed"}

\* synchronize() has computed ids_to_remove
IdsCompared ==
  \/ pc \in {"upsert", "delete", "commit", "done", "commit_failed"}
  \/ pc = "tasks_call" /\ ret = "upsert"

\* C1: when synchronize() has returned, it has issued one upsert per fetched
\* task, in list order, and one delete for each identifier of idsInDb minus
\* idsRemote and for no other; unless the run is dry, no identifier of the
\* difference is left in the table and every identifier that was only remote
\* has a row.
C1_SynchronizeUpsertsAllDeletesDifference ==
  (args.command = "synchronize" /\ CommandReturned) =>
    LET idsInDb == IdsIn(table0)
        idsRemote == FetchedIds
    IN /\ GidsOf([k \in DOMAIN Upserts |-> Upserts[k].params]) = GidsOf(task_cache.list)
       /\ {Deletes[k].id : k \in DOMAIN Deletes} = idsInDb \ idsRemote
       /\ Len(Deletes) = Cardinality(idsInDb \ idsRemote)
       /\ ~args.dry => /\ IdsIn(table) \cap (idsInDb \ idsRemote) = {}
                       /\ idsRemote \ idsInDb \subseteq IdsIn(table)

C1_Witness ==
  /\ args.command = "synchronize" /\ pc = "done" /\ ~args.dry
  /\ IdsIn(table0) \ FetchedIds # {}
  /\ FetchedIds \ IdsIn(table0) # {}
  /\ FetchedIds \cap IdsIn(table0) # {}
  /\ Len(Deletes) > 0

\* C2: in a synchronize run no upsert is issued after a delete, no delete
\* targets an identifier that was in the table before the call and is in the
\* fetched list, and such an identifier has a row in every state of the call.
C2_UpsertsBeforeDeletes ==
  args.command = "synchronize" =>
    /\ \A a, b \in DOMAIN db_log :
         (db_log[a].op = "delete" /\ db_log[b].op = "upsert") => b < a
    /\ \A k \in DOMAIN Deletes :
         Deletes[k].id \notin (IdsIn(table0) \cap FetchedIds)
    /\ IF tasks_returns = 0 THEN table = table0
       ELSE IdsIn(table0) \cap FetchedIds \subseteq IdsIn(table)

C2_Witness ==
  /\ args.command = "synchronize" /\ pc = "delete" /\ ~args.dry
  /\ Len(Deletes) > 0 /\ Len(Upserts) > 1
  /\ IdsIn(table0) \cap FetchedIds # {}

\* C3: an export run issues no delete, every identifier that had a row before
\* export() still has one in every state, and when export() has returned the
\* statements issued on the task table are one upsert per fetched task, in
\* list order, and nothing else.
C3_ExportNeverDeletes ==
  args.command = "export" =>
    /\ Len(Deletes) = 0
    /\ IdsIn(table0) \subseteq IdsIn(table)
    /\ CommandReturned =>
         /\ GidsOf([k \in DOMAIN Upserts |-> Upserts[k].params]) = GidsOf(task_cache.list)
         /\ Len(db_log) = Len(Upserts) + Len(Commits)

C3_Witness ==
  /\ args.command = "export" /\ pc = "done" /\ ~args.dry
  /\ IdsIn(table0) \ FetchedIds # {}
  /\ Len(Upserts) > 1

\* the statement issued by the step, when the step is an executed upsert
LastStatement == db_log'[Len(db_log')]

ExecutedUpsert ==
  /\ Len(db_log') = Len(db_log) + 1
  /\ LastStatement.op = "upsert"
  /\ ~args.dry
  /\ pc' # "failed"

\* rows the upsert conflicts with
ConflictingRows == {r \in table : r["gid"] = LastStatement.params["gid"]}

\* C4: an executed upsert names no column in its update set whose field
\* extracted None for the task, and leaves that column of an existing row of
\* the same identifier as it was.
C4_AbsentValueNeverOverwrites ==
  [][ExecutedUpsert =>
        \A f \in Range(direct_fields) :
          LastStatement.params[f] = NoneV =>
            /\ f \notin UpdateSetColumns(LastStatement.set)
            /\ \A r \in ConflictingRows :
                 \E r2 \in table' : r2["gid"] = r["gid"] /\ r2[f] = r[f]]_vars

\* C5: an executed upsert on an existing identifier leaves, in every column
\* whose field extracted a value other than None, that extracted value.
C5_NonNullValueAlwaysStored ==
  [][ExecutedUpsert =>
        \A f \in Range(direct_fields) :
          LastStatement.params[f] # NoneV =>
            \A r \in ConflictingRows :
              \E r2 \in table' :
                r2["gid"] = r["gid"] /\ r2[f] = LastStatement.params[f]]_vars

\* C6: with the remote project unchanged during the run, the list _tasks()
\* returns is the top-level tasks followed by the direct sub-tasks of each,
\* flat; every request carried the same field selection; an executed export
\* leaves a row for each of them; and synchronize compares the identifier of
\* each of them.
C6_SubTasksFlattenedAsPeers ==
  /\ Cardinality(req_fields) <= 1
  /\ (tasks_returns >= 1 /\ remote_change = "none") =>
       /\ task_cache.list = Flatten(remote, task_data)
       /\ (args.command = "export" /\ CommandReturned /\ ~args.dry) =>
            Range(GidsOf(Flatten(remote, task_data))) \subseteq IdsIn(table)
       /\ (args.command = "synchronize" /\ IdsCompared) =>
            asana_task_ids = Range(GidsOf(Flatten(remote, task_data)))

C6_Witness ==
  /\ args.command = "export" /\ pc = "done" /\ ~args.dry
  /\ remote_change = "none"
  /\ Len(remote.top) = 1
  /\ Len(remote.subs[remote.top[1]]) = 1
  /\ table0 = {}
  /\ Cardinality(table) = 2

\* C7: once _tasks() has returned, no step changes the cached list and no
\* step sends a task-list or sub-task request.
C7_CachedTasksNeverRefetched ==
  [][tasks_returns >= 1 =>
       /\ task_cache' = task_cache
       /\ task_requests' = task_requests]_vars

C7_Witness ==
  /\ tasks_returns = 2
  /\ remote_change = "after_return"
  /\ task_cache.list # Flatten(remote, task_data)

\* the run is over
Terminated == pc \in {"done", "failed", "commit_failed"}

\* C8: at the end of a run of create, export or synchronize a commit has been
\* issued if and only if the run was not dry and the command issued all its
\* statements without error; a commit is issued at most once and is the last
\* statement.
C8_CommitIffSuccessfulAndNotDry ==
  /\ Len(Commits) <= 1
  /\ \A k \in DOMAIN db_log : db_log[k].op = "commit" => k = Len(db_log)
  /\ (Terminated /\ args.command # "none") =>
       (Len(Commits) = 1 <=> (~args.dry /\ pc \in {"done", "commit_failed"}))

\* C9: every statement is keyed on the first direct field: the upsert's
\* conflict target, the delete's WHERE column and the column read for
\* idsInDb; and idsRemote is what that field extracts from the tasks.
C9_OneIdentifierColumn ==
  /\ \A k \in DOMAIN db_log :
       /\ db_log[k].op = "upsert" => db_log[k].conflict = IdField(direct_fields)
       /\ db_log[k].op \in {"delete", "select"} => db_log[k].col = IdField(direct_fields)
  /\ (args.command = "synchronize" /\ IdsCompared) =>
       asana_task_ids = {GetDataFromTask(IdField(direct_fields), task_cache.list[k]) :
                           k \in DOMAIN task_cache.list}

\* C10: outside the body of _tasks(), with the remote project unchanged, the
\* task cache is unset or holds the complete flattened list.
C10_CacheUnsetOrComplete ==
  (pc \notin {"fetch2", "subtasks"} /\ remote_change = "none") =>
    \/ ~task_cache.set
    \/ task_cache.list = Flatten(remote, task_data)

====
